---- MODULE Spec2Model ----
(***************************************************************************)
(* Generative agents: the Agent memory stream (core/typescript/src/        *)
(* agent.ts), the InteractionService coordinator (interactionService.ts)   *)
(* and the per-frame interaction check of the Phaser characters            *)
(* (AgentCharacter.ts, MainScene.ts).                                      *)
(* The page around the scene is modelled too: the AgentLogger panel, the  *)
(* AgentChat and AgentEditor components and the agentService store.       *)
(*                                                                         *)
(* JavaScript runs one job at a time.  A frame (MainScene.update) and the  *)
(* arrival of a collaborator's answer (engine.getImportanceScore,          *)
(* engine.getEmbedding, engine.reply: network calls) are jobs; the async   *)
(* functions waiting on a promise the job settles resume in the microtask  *)
(* checkpoint of that same job, before any other job starts.  Every action *)
(* below is one job with the continuations it wakes; between jobs a call   *)
(* is parked in `calls` (an Agent.observe call) or in `tasks` (a           *)
(* checkForInteractions call).  Text is a sequence of tokens, so that      *)
(* split('|') is computed.  Phaser display objects (sprites, speech        *)
(* bubbles, animations) are not state of the model.                        *)
(***************************************************************************)
EXTENDS Integers, Sequences, FiniteSets, TLC

VARIABLES
    now,                  \* Date.now(), in ms
    position,             \* AgentCharacter.x / .y of every character
    memoryStream,         \* Agent.memoryStream of every agent
    memoryCount,          \* Agent.memoryCount of every agent
    interactions,         \* InteractionService.interactions
    memories,             \* InteractionService.memories (a Map: partial function)
    lastInteractionTime,  \* AgentCharacter.lastInteractionTime of every character
    calls,                \* the Agent.observe calls made so far and where each stands
    tasks,                \* the checkForInteractions calls that reached createInteraction
    probe,                \* the last query made of the coordinator, and its answer
    latestPlanIteration,  \* Agent.latestPlanIteration of every agent
    importanceSum,        \* importance of every agent's observations since its last reflection
    ops,                  \* the createPlan and maybeReflect calls made so far
    logs,                 \* AgentLogger: logs
    captured,             \* AgentLogger: how many console.log calls were captured
    messages,             \* AgentChat: messages
    inputMessage,         \* AgentChat: inputMessage
    isAgentReplying,      \* AgentChat: isAgentReplying
    sends,                \* AgentChat: the handleSendMessage calls and where each stands
    chatAgent,            \* AgentChat: whether the agent prop is defined
    editedAgent,          \* AgentEditor: editedAgent
    hasChanges,           \* AgentEditor: hasChanges
    validationErrors,     \* AgentEditor: validationErrors (partial function)
    isEditing,            \* AgentChat: isEditing, the editor's mode
    agentDetails,         \* AgentChat: agentDetails, the editor's agent prop
    storage               \* localStorage: the item under STORAGE_KEY

vars == <<now, position, memoryStream, memoryCount, interactions, memories,
          lastInteractionTime, calls, tasks, probe,
          latestPlanIteration, importanceSum, ops,
          logs, captured, messages, inputMessage, isAgentReplying, sends, chatAgent,
          editedAgent, hasChanges, validationErrors, isEditing, agentDetails, storage>>

\* the state of the page around the scene: activity log, chat, editor, store
logger == <<logs, captured>>
chat == <<messages, inputMessage, isAgentReplying, sends, chatAgent>>
editor == <<editedAgent, hasChanges, validationErrors, isEditing, agentDetails>>
ui == <<logger, chat, editor, storage>>

\* what planning and reflection keep, beyond the memory stream
engine == <<latestPlanIteration, importanceSum, ops>>

\* agents, coordinator and characters
scene == <<now, position, memoryStream, memoryCount, interactions, memories,
           lastInteractionTime, calls, tasks, probe, engine>>

---------------------------------------------------------------------------
(* Bounds of the model *)

\* Spec: observe calls of the scene plus checkForInteractions calls that
\* initiate an interaction
MaxOps == 2
\* SpecInteract: checkForInteractions calls that initiate an interaction
MaxTasks == 1
\* SpecAgent: Agent.observe calls made by the scene (MainScene.create)
MaxObserve == 3
\* SpecRecent: checkForInteractions calls that initiate an interaction
MaxLog == 2
\* SpecRecent: the largest limit asked of getRecentInteractions
MaxLimit == 2
\* SpecPlan: createPlan calls that go to the collaborator
MaxPlans == 2
\* SpecRetrieve, SpecReflect: observe calls; SpecRetrieve: retrieve calls
MaxMemories == 2
MaxRetrieves == 1
\* SpecReflect: the memories a reflection takes as evidence
MaxEvidence == 2
\* SpecLogger: console.log calls captured
MaxCaptured == 102
\* SpecChat: handleSendMessage calls that add a message
MaxSends == 2
\* clock ticks
MaxTicks == 1

(* Program constants *)

minInteractionInterval == 10000
proximityThreshold == 100

\* settings.attention and settings.retention, by default (Agent.constructor)
attention == 8
retention == 8

\* a slip: the plan iterations start from 0
InitialPlanIterationZero == 1 - 1

\* this.latestPlanIteration = 1 (Agent.constructor)
InitialPlanIteration == 1

\* the clock advances by a cooldown window per tick; Date.now() is beyond one
\* window when the scene starts
TickMs == minInteractionInterval
StartTime == minInteractionInterval

\* scene.characters, in insertion order; a character is named by its agent's id
Characters == <<"a1", "a2", "a3">>
\* the agents that act: the first two; the third stands by, and is within
\* anybody's range only in SpecPass
Agents == {Characters[1], Characters[2]}
Bystander == Characters[3]
Everybody == {Characters[i] : i \in 1..Len(Characters)}

\* where the characters walk: each between its start and the far corner.
\* (0,0)-(60,80) are exactly 100 apart, the corner is out of range of both starts
Corner == [x |-> 150, y |-> 0]
StartPosition == [a \in Everybody |->
    IF a = Characters[1] THEN [x |-> 0, y |-> 0]
    ELSE IF a = Characters[2] THEN [x |-> 60, y |-> 80]
    ELSE [x |-> 0, y |-> 300]]
\* where the third character stands in SpecPass: 60 from the first one's start
Aside == [x |-> 0, y |-> 60]
Positions(ch) == {StartPosition[ch], Corner}

\* answers of the collaborators
Scores == {7}
Embeddings == {<<1, 0>>}
RandomIds == {"k3f9x2a"}
ReplyTexts == {<<"Hi", "|", "Hello">>, <<>>}
Replies == {[threw |-> TRUE, text |-> <<>>]} \cup
           {[threw |-> FALSE, text |-> s] : s \in ReplyTexts}
SceneDescriptions == {<<"background">>}
InteractionTypes == {"conversation", "rumor"}

---------------------------------------------------------------------------
(* Pure functions *)

\* `obs_${n}`
ObservationId(n) == <<"obs", n>>

\* dateToString(new Date()) (helpers.ts): the clock reading as a string
DateToString(t) == <<"date", t>>

\* a slip: unshift in place of push
Unshift(stream, m) == <<m>> \o stream

\* Array.prototype.push
Push(stream, m) == Append(stream, m)

\* a slip: the counter is left as it was
BumpCountForgotten(mc) == mc

\* this.memoryCount.observation += 1
BumpCount(mc) == [mc EXCEPT !.observation = @ + 1]

\* the Observation built and appended by Agent.observe; createdAt and
\* latestAccess are each stamped from a `new Date()` of its own
NewObservation(mc, description, importance, embedding, created, accessed) ==
    [id |-> ObservationId(mc.observation + 1),
     createdAt |-> DateToString(created),
     description |-> description,
     importance |-> importance,
     latestAccess |-> DateToString(accessed),
     embedding |-> embedding,
     type |-> "OBSERVATION"]

\* String.prototype.split(sep): the segments between the separators
RECURSIVE SplitFrom(_, _, _)
SplitFrom(s, sep, acc) ==
    IF s = <<>> THEN <<acc>>
    ELSE IF Head(s) = sep THEN <<acc>> \o SplitFrom(Tail(s), sep, <<>>)
    ELSE SplitFrom(Tail(s), sep, Append(acc, Head(s)))
Split(s, sep) == SplitFrom(s, sep, <<>>)

\* Math.pow(b, 2)
Pow2(b) == b * b

\* Math.sqrt(n), rounded up to a whole number: the least k with k * k >= n.
\* Rounding up keeps every comparison `Math.sqrt(n) <= t` with a whole t.
RECURSIVE SqrtBetween(_, _, _)
SqrtBetween(n, lo, hi) ==
    IF lo >= hi THEN hi
    ELSE LET mid == (lo + hi) \div 2
         IN  IF mid * mid >= n THEN SqrtBetween(n, lo, mid)
             ELSE SqrtBetween(n, mid + 1, hi)
\* a whole number whose square is at least n, found by doubling
RECURSIVE RootAbove(_, _)
RootAbove(n, k) == IF k * k >= n THEN k ELSE RootAbove(n, 2 * k)
Sqrt(n) == SqrtBetween(n, 0, RootAbove(n, 1))

\* a slip: `<` in place of `<=`
canInteractStrict(agent1, agent2) ==
    Sqrt(Pow2(agent1.x - agent2.x) + Pow2(agent1.y - agent2.y)) < proximityThreshold

\* InteractionService.canInteract
canInteract(agent1, agent2) ==
    LET distance == Sqrt(Pow2(agent1.x - agent2.x) + Pow2(agent1.y - agent2.y))
    IN  distance <= proximityThreshold

ConversationPlaceholder == <<"Failed to generate conversation">>
RumorPlaceholder == <<"Failed to generate rumor">>

\* engine.reply rejected, or resolved with an empty (falsy) reply
ReplyFailed(reply) == reply.threw \/ reply.text = <<>>

\* a slip: no try/catch and no `||`: the rejection of engine.reply escapes and
\* an empty reply is the content
GenerateConversationUncaught(reply) ==
    IF reply.threw THEN [threw |-> TRUE, value |-> <<>>]
    ELSE [threw |-> FALSE, value |-> reply.text]

\* InteractionService.generateConversation from the awaited reply on:
\* `response || placeholder` inside try, the placeholder from catch
GenerateConversation(reply) ==
    IF reply.threw THEN [threw |-> FALSE, value |-> ConversationPlaceholder]
    ELSE IF reply.text = <<>> THEN [threw |-> FALSE, value |-> ConversationPlaceholder]
    ELSE [threw |-> FALSE, value |-> reply.text]

\* a slip: the rejection of engine.reply is not caught
GenerateRumorUncaught(reply) ==
    IF reply.threw THEN [threw |-> TRUE, value |-> <<>>]
    ELSE IF reply.text = <<>> THEN [threw |-> FALSE, value |-> RumorPlaceholder]
    ELSE [threw |-> FALSE, value |-> reply.text]

\* InteractionService.generateRumor from the awaited reply on
GenerateRumor(reply) ==
    IF reply.threw THEN [threw |-> FALSE, value |-> RumorPlaceholder]
    ELSE IF reply.text = <<>> THEN [threw |-> FALSE, value |-> RumorPlaceholder]
    ELSE [threw |-> FALSE, value |-> reply.text]

\* the switch of createInteraction
GenerateContent(type, reply) ==
    IF type = "conversation" THEN GenerateConversation(reply) ELSE GenerateRumor(reply)

\* a slip: the target is not notified
NotifyInitiatorOnly(initiator, target) == <<initiator>>

\* the agents createInteraction notifies with observe(content), in order
NotifyOrder(initiator, target) == <<initiator, target>>

\* a slip: the list is set to the new memory instead of growing by it
RecordMemoryReplacing(mem, agentId, content, type, source, t) ==
    LET memory == [agentId |-> agentId, content |-> content, timestamp |-> t,
                   source |-> source, type |-> type,
                   reliability |-> IF type = "direct" THEN 10
                                   ELSE IF type = "observed" THEN 8 ELSE 5]
    IN  [a \in DOMAIN mem \cup {agentId} |->
            IF a = agentId THEN <<memory>> ELSE mem[a]]

\* InteractionService.recordMemory
RecordMemory(mem, agentId, content, type, source, t) ==
    LET memory == [agentId |-> agentId, content |-> content, timestamp |-> t,
                   source |-> source, type |-> type,
                   \* 1, 0.8, 0.5 in tenths
                   reliability |-> IF type = "direct" THEN 10
                                   ELSE IF type = "observed" THEN 8 ELSE 5]
        had == IF agentId \in DOMAIN mem THEN mem[agentId] ELSE <<>>
    IN  [a \in DOMAIN mem \cup {agentId} |->
            IF a = agentId THEN Append(had, memory) ELSE mem[a]]

\* InteractionService.getAgentMemories
getAgentMemories(agentId) ==
    IF agentId \in DOMAIN memories THEN memories[agentId] ELSE <<>>

\* nothing has been asked of the coordinator yet
NoProbe == [query |-> "none", args |-> <<>>, answer |-> <<>>]

NoInteraction ==
    [id |-> "null", initiatorId |-> "null", targetId |-> "null",
     type |-> "null", content |-> <<>>, timestamp |-> 0]

---------------------------------------------------------------------------
(* The page around the scene as first rendered *)

\* AgentLogger: useState([])
InitLogger ==
    /\ logs = <<>>
    /\ captured = 0

\* a message of the chat; `id` names the object (handleSendMessage compares
\* with ===): the number of the call that made it, 0 for the agent's messages
Message(id, sender, content, status) ==
    [id |-> id, sender |-> sender, content |-> content, status |-> status]

\* AgentChat: the useState initial values; the agent prop is given or not
InitChat(agent) ==
    /\ messages = <<Message(0, "agent", <<"Welcome!">>, "sent")>>
    /\ inputMessage = <<>>
    /\ isAgentReplying = FALSE
    /\ sends = <<>>
    /\ chatAgent = agent

\* an absent value
Undefined == "undefined"

\* AgentChat: defaultAgentDetails, of which the model keeps five fields; text
\* is a sequence of characters
DefaultAgentDetails ==
    [id |-> "lucy_miller", name |-> <<"L", "u">>, age |-> 16, attention |-> 8,
     emoji |-> Undefined]

\* AgentChat and AgentEditor: the useState initial values, nothing stored yet
InitEditor ==
    /\ agentDetails = DefaultAgentDetails
    /\ isEditing = FALSE
    /\ editedAgent = DefaultAgentDetails
    /\ hasChanges = FALSE
    /\ validationErrors = <<>>

\* localStorage.getItem(STORAGE_KEY) is null: nothing was stored
NoItem == [present |-> FALSE, text |-> <<>>]

InitUi ==
    /\ InitLogger
    /\ InitChat(TRUE)
    /\ InitEditor
    /\ storage = NoItem

---------------------------------------------------------------------------
(* Initial state: agents and coordinator as constructed, characters placed *)

InitScene ==
    /\ now = StartTime
    /\ position = StartPosition
    /\ memoryStream = [a \in Agents |-> <<>>]
    /\ memoryCount = [a \in Agents |->
           [observation |-> 0, reflection |-> 0, plan |-> 0, conversation |-> 0]]
    /\ interactions = <<>>
    /\ memories = [a \in {} |-> <<>>]
    /\ lastInteractionTime = [a \in Agents |-> 0]
    /\ calls = <<>>
    /\ tasks = <<>>
    /\ probe = NoProbe
    /\ latestPlanIteration = [a \in Agents |-> InitialPlanIteration]
    /\ importanceSum = [a \in Agents |-> 0]
    /\ ops = <<>>

Init ==
    /\ InitScene
    /\ InitUi

---------------------------------------------------------------------------
(* AgentCharacter.checkForInteractions, from the point it is resumed *)

\* a slip: the proximity test is left out
CandidatesAnywhere(self, from) ==
    {j \in from..Len(Characters) : Characters[j] # self}

\* the characters the for-loop can reach an interaction with from index `from`
\* on: not itself, and within range now
Candidates(self, from) ==
    {j \in from..Len(Characters) :
        /\ Characters[j] # self
        /\ canInteract(position[self], position[Characters[j]])}

\* the cooldown test at the top of checkForInteractions
CoolingDown(ch) == now - lastInteractionTime[ch] < minInteractionInterval

\* shouldInteract drawn true for character j, interaction type drawn: the call
\* of createInteraction runs up to `await engine.reply` in generateConversation
\* or generateRumor (the prompt and its context go to the collaborator and are
\* not kept)
Initiated(task, j, type) ==
    [task EXCEPT !.pc = "reply", !.idx = j, !.type = type, !.notified = 0,
                 !.call = 0, !.interaction = NoInteraction]

NewTask(ch) ==
    [self |-> ch, idx |-> 0, type |-> "null", pc |-> "start",
     replyFailed |-> FALSE, content |-> <<>>,
     interaction |-> NoInteraction, notified |-> 0, call |-> 0, returned |-> 0,
     error |-> "none"]

\* const [initiatorText, targetText] = interaction.content.split('|')
TargetText(content) ==
    LET parts == Split(content, "|")
    IN  IF Len(parts) >= 2 THEN [defined |-> TRUE, text |-> parts[2]]
        ELSE [defined |-> FALSE, text |-> <<>>]

\* createInteraction returned `interaction` and checkForInteractions resumes
\* with it: the speech bubbles, the two cooldown stamps, then the for-loop goes
\* on with the characters after idx, up to the next await or to its end.
\* targetText.trim() on an undefined targetText throws a TypeError before the
\* stamps.
Resume(t, interaction) ==
    LET task == [tasks[t] EXCEPT !.call = 0, !.returned = @ + 1]
        other == Characters[task.idx]
    IN  IF interaction # NoInteraction /\ ~TargetText(interaction.content).defined
        THEN /\ tasks' = [tasks EXCEPT ![t] =
                            [task EXCEPT !.pc = "rejected", !.error = "TypeError"]]
             /\ UNCHANGED lastInteractionTime
        ELSE /\ lastInteractionTime' =
                  IF interaction # NoInteraction
                  THEN [lastInteractionTime EXCEPT ![task.self] = now, ![other] = now]
                  ELSE lastInteractionTime
             /\ \/ tasks' = [tasks EXCEPT ![t] = [task EXCEPT !.pc = "done"]]
                \/ \E j \in Candidates(task.self, task.idx + 1),
                      type \in InteractionTypes :
                     tasks' = [tasks EXCEPT ![t] = Initiated(task, j, type)]

---------------------------------------------------------------------------
(* Agent.observe, and what its settling wakes *)

\* the last reading the clock of the model goes up to
LastTime == StartTime + MaxTicks * TickMs

\* what a later `new Date()` of the same job can read when an earlier one read
\* t: the same reading, or the next one
ClockAfter(t) == {t} \cup (IF t < LastTime THEN {t + TickMs} ELSE {})

\* observe(description) is called: it runs up to `await getImportanceScore`
\* caller: the task whose createInteraction made the call (0: the scene), and
\* round: which of the task's createInteraction calls; at: where the memory went
NewCall(agent, description, caller, round) ==
    [agent |-> agent, description |-> description, pc |-> "score",
     importance |-> 0, caller |-> caller, round |-> round, at |-> 0]

SceneCalls == {c \in 1..Len(calls) : calls[c].caller = 0}

\* the observe awaited by createInteraction (task t) resolved; `settled` is
\* `calls` with that call done.  createInteraction calls the next observe, or,
\* after the last one, returns the interaction.
ObserveResolved(t, settled) ==
    LET task == tasks[t]
        order == NotifyOrder(task.self, Characters[task.idx])
    IN  IF task.notified < Len(order)
        THEN /\ calls' = Append(settled,
                            NewCall(order[task.notified + 1], task.content, t,
                                    task.returned + 1))
             /\ tasks' = [tasks EXCEPT ![t].notified = @ + 1,
                                       ![t].call = Len(settled) + 1]
             /\ UNCHANGED lastInteractionTime
        ELSE /\ calls' = settled
             /\ Resume(t, task.interaction)

\* a slip: the cooldown is stamped in a finally block, so on a rejection too
ObserveRejectedStamping(t) ==
    /\ tasks' = [tasks EXCEPT ![t].pc = "rejected", ![t].error = "ScoringUnavailable"]
    /\ lastInteractionTime' = [lastInteractionTime EXCEPT ![tasks[t].self] = now]

\* the observe awaited by createInteraction (task t) rejected: createInteraction
\* rejects, and with it checkForInteractions; nobody catches
ObserveRejected(t) ==
    /\ tasks' = [tasks EXCEPT ![t].pc = "rejected", ![t].error = "ScoringUnavailable"]
    /\ UNCHANGED lastInteractionTime

\* a slip: the observation is counted when observe is entered, and again when
\* the memory is pushed
SceneObserveCounting(a, d, room) ==
    /\ room
    /\ calls' = Append(calls, NewCall(a, d, 0, 0))
    /\ memoryCount' = [memoryCount EXCEPT ![a] = BumpCount(@)]
    /\ UNCHANGED <<now, position, memoryStream, interactions,
                   memories, lastInteractionTime, tasks>>

\* MainScene.create: agent.observe(...) is called and not awaited
SceneObserve(a, d, room) ==
    /\ room
    /\ calls' = Append(calls, NewCall(a, d, 0, 0))
    /\ UNCHANGED <<now, position, memoryStream, memoryCount, interactions,
                   memories, lastInteractionTime, tasks>>

\* a slip: one queue for all agents: a call is answered only when every call
\* made before it has settled
ScoreReturnInTurn(c, s) ==
    /\ calls[c].pc = "score"
    /\ \A d \in 1..(c - 1) : calls[d].pc \in {"done", "failed"}
    /\ calls' = [calls EXCEPT ![c].pc = "embed", ![c].importance = s]
    /\ UNCHANGED <<now, position, memoryStream, memoryCount, interactions,
                   memories, lastInteractionTime, tasks>>

\* getImportanceScore answers: observe goes on to `await getEmbedding`
ScoreReturn(c, s) ==
    /\ calls[c].pc = "score"
    /\ calls' = [calls EXCEPT ![c].pc = "embed", ![c].importance = s]
    /\ UNCHANGED <<now, position, memoryStream, memoryCount, interactions,
                   memories, lastInteractionTime, tasks>>

\* getImportanceScore rejects: observe rejects
ScoreThrow(c) ==
    /\ calls[c].pc = "score"
    /\ calls' = [calls EXCEPT ![c].pc = "failed"]
    /\ IF calls[c].caller = 0
       THEN UNCHANGED <<tasks, lastInteractionTime>>
       ELSE ObserveRejected(calls[c].caller)
    /\ UNCHANGED <<now, position, memoryStream, memoryCount, interactions, memories>>

\* getEmbedding answers: the memory is built, pushed and counted, and observe
\* resolves.  The clock is read twice while the memory is built, and may have
\* moved on in between.
EmbedReturn(c, e) ==
    /\ calls[c].pc = "embed"
    /\ \E accessed \in ClockAfter(now) :
        LET a == calls[c].agent
            memory == NewObservation(memoryCount[a], calls[c].description,
                                     calls[c].importance, e, now, accessed)
            settled == [calls EXCEPT ![c].pc = "done",
                                     ![c].at = Len(memoryStream[a]) + 1]
        IN  /\ now' = accessed
            /\ memoryStream' = [memoryStream EXCEPT ![a] = Push(@, memory)]
            /\ memoryCount' = [memoryCount EXCEPT ![a] = BumpCount(@)]
            /\ IF calls[c].caller = 0
               THEN /\ calls' = settled
                    /\ UNCHANGED <<tasks, lastInteractionTime>>
               ELSE ObserveResolved(calls[c].caller, settled)
    /\ UNCHANGED <<position, interactions, memories>>

\* a slip: the memory is pushed before the embedding is awaited, and stays
\* when getEmbedding rejects
EmbedThrowPartial(c) ==
    /\ calls[c].pc = "embed"
    /\ LET a == calls[c].agent
           memory == NewObservation(memoryCount[a], calls[c].description,
                                    calls[c].importance, <<>>, now, now)
       IN  memoryStream' = [memoryStream EXCEPT ![a] = Push(@, memory)]
    /\ calls' = [calls EXCEPT ![c].pc = "failed"]
    /\ IF calls[c].caller = 0
       THEN UNCHANGED <<tasks, lastInteractionTime>>
       ELSE ObserveRejected(calls[c].caller)
    /\ UNCHANGED <<now, position, memoryCount, interactions, memories>>

\* getEmbedding rejects: observe rejects
EmbedThrow(c) ==
    /\ calls[c].pc = "embed"
    /\ calls' = [calls EXCEPT ![c].pc = "failed"]
    /\ IF calls[c].caller = 0
       THEN UNCHANGED <<tasks, lastInteractionTime>>
       ELSE ObserveRejected(calls[c].caller)
    /\ UNCHANGED <<now, position, memoryStream, memoryCount, interactions, memories>>

---------------------------------------------------------------------------
(* The world: clock and movement *)

Tick ==
    /\ now < LastTime
    /\ now' = now + TickMs
    /\ UNCHANGED <<position, memoryStream, memoryCount, interactions, memories,
                   lastInteractionTime, calls, tasks>>

\* AgentCharacter.moveCharacter / the tweens of updateAgentLocation
Move(ch, p) ==
    /\ position[ch] # p
    /\ position' = [position EXCEPT ![ch] = p]
    /\ UNCHANGED <<now, memoryStream, memoryCount, interactions, memories,
                   lastInteractionTime, calls, tasks>>

---------------------------------------------------------------------------
(* A frame, and InteractionService.createInteraction *)

\* AgentCharacter.update -> checkForInteractions, up to its first await.  Within
\* the cooldown, out of range of everybody or with every draw lost, the call
\* returns and changes nothing.  MainScene.update runs this for every
\* character of the frame in turn; the runs of one frame read nothing another
\* one writes.
Update(ch, room) ==
    \/ UNCHANGED vars
    \/ /\ ~CoolingDown(ch)
       /\ room
       /\ \E j \in Candidates(ch, 1), type \in InteractionTypes :
             tasks' = Append(tasks, Initiated(NewTask(ch), j, type))
       /\ UNCHANGED <<now, position, memoryStream, memoryCount, interactions,
                      memories, lastInteractionTime, calls>>

\* engine.reply answers or rejects.  createInteraction goes on: content, the
\* Interaction record, interactions.push, recordMemory twice, then
\* initiator.observe(content) is called and awaited.
ReplyReturn(t, reply, id) ==
    /\ tasks[t].pc = "reply"
    /\ LET task == tasks[t]
           initiator == task.self
           target == Characters[task.idx]
           result == GenerateContent(task.type, reply)
           content == result.value
           interaction == [id |-> id, initiatorId |-> initiator, targetId |-> target,
                           type |-> task.type, content |-> content, timestamp |-> now]
           first == NotifyOrder(initiator, target)[1]
       IN  IF result.threw
           THEN \* a rejection escaping generate* would reject createInteraction
                /\ tasks' = [tasks EXCEPT ![t].pc = "rejected",
                                          ![t].replyFailed = ReplyFailed(reply),
                                          ![t].error = "GenerationUnavailable"]
                /\ UNCHANGED <<interactions, memories, calls>>
           ELSE /\ interactions' = Push(interactions, interaction)
                /\ memories' =
                     RecordMemory(
                       RecordMemory(memories, initiator, content, "direct", target, now),
                       target, content,
                       IF task.type = "rumor" THEN "rumor" ELSE "direct",
                       initiator, now)
                /\ calls' = Append(calls, NewCall(first, content, t, task.returned + 1))
                /\ tasks' = [tasks EXCEPT ![t].pc = "notify",
                                          ![t].replyFailed = ReplyFailed(reply),
                                          ![t].content = content,
                                          ![t].interaction = interaction,
                                          ![t].notified = 1,
                                          ![t].call = Len(calls) + 1]
    /\ UNCHANGED <<now, position, memoryStream, memoryCount, lastInteractionTime>>

---------------------------------------------------------------------------

\* what the collaborators and the world do, whoever is waiting
Environment ==
    \/ \E c \in 1..Len(calls), s \in Scores : ScoreReturn(c, s)
    \/ \E c \in 1..Len(calls) : ScoreThrow(c)
    \/ \E c \in 1..Len(calls), e \in Embeddings : EmbedReturn(c, e)
    \/ \E c \in 1..Len(calls) : EmbedThrow(c)
    \/ Tick

\* the whole scene: the observes of MainScene.create and the frames
OpsRoom == Cardinality(SceneCalls) + Len(tasks) < MaxOps

Next ==
    /\ \/ Environment
       \/ \E a \in Agents, d \in SceneDescriptions : SceneObserve(a, d, OpsRoom)
       \/ \E ch \in Agents : \E p \in Positions(ch) : Move(ch, p)
       \/ \E ch \in Agents : Update(ch, OpsRoom)
       \/ \E t \in 1..Len(tasks), reply \in Replies, id \in RandomIds :
             ReplyReturn(t, reply, id)
    /\ UNCHANGED <<probe, engine, ui>>

Spec == Init /\ [][Next]_vars

\* the frames alone, the characters standing where they started, in range
NextInteract ==
    /\ \/ Environment
       \/ \E ch \in Agents : Update(ch, Len(tasks) < MaxTasks)
       \/ \E t \in 1..Len(tasks), reply \in Replies, id \in RandomIds :
             ReplyReturn(t, reply, id)
    /\ UNCHANGED <<probe, engine, ui>>

SpecInteract == Init /\ [][NextInteract]_vars

\* the agents alone: the observes of MainScene.create
NextAgent ==
    /\ \/ Environment
       \/ \E a \in Agents, d \in SceneDescriptions :
             SceneObserve(a, d, Cardinality(SceneCalls) < MaxObserve)
    /\ UNCHANGED <<probe, engine, ui>>

SpecAgent == Init /\ [][NextAgent]_vars

\* the log and its query: the frames, with collaborators that answer, and
\* getRecentInteractions asked in between
Answering == {reply \in Replies : ~reply.threw /\ reply.text # <<>>}

\* the argument lists of getRecentInteractions: a limit, or none
Limits == {<<n>> : n \in 0..MaxLimit} \cup {<<>>}

\* Array.prototype.slice(0, end)
Slice0(seq, end) ==
    LET len == Len(seq)
        to == IF end < 0 THEN (IF len + end > 0 THEN len + end ELSE 0)
              ELSE IF end > len THEN len ELSE end
    IN  SubSeq(seq, 1, to)

\* a slip: the comparator the other way round, a.timestamp - b.timestamp
RECURSIVE InsertOldestFirst(_, _)
InsertOldestFirst(sorted, r) ==
    IF sorted = <<>> THEN <<r>>
    ELSE IF Head(sorted).timestamp - r.timestamp <= 0
         THEN <<Head(sorted)>> \o InsertOldestFirst(Tail(sorted), r)
         ELSE <<r>> \o sorted
RECURSIVE SortOldestFirst(_)
SortOldestFirst(seq) ==
    IF seq = <<>> THEN <<>>
    ELSE InsertOldestFirst(SortOldestFirst(SubSeq(seq, 1, Len(seq) - 1)), seq[Len(seq)])

\* Array.prototype.sort((a, b) => b.timestamp - a.timestamp): stable, so r goes
\* behind every element the comparator does not put after it
RECURSIVE InsertNewestFirst(_, _)
InsertNewestFirst(sorted, r) ==
    IF sorted = <<>> THEN <<r>>
    ELSE IF r.timestamp - Head(sorted).timestamp <= 0
         THEN <<Head(sorted)>> \o InsertNewestFirst(Tail(sorted), r)
         ELSE <<r>> \o sorted
RECURSIVE SortNewestFirst(_)
SortNewestFirst(seq) ==
    IF seq = <<>> THEN <<>>
    ELSE InsertNewestFirst(SortNewestFirst(SubSeq(seq, 1, Len(seq) - 1)), seq[Len(seq)])

\* InteractionService.getRecentInteractions(limit = 10): sort works in place, on
\* this.interactions itself, and slice copies the front of it
GetRecentInteractions(limit) ==
    LET sorted == SortNewestFirst(interactions)
        end == IF limit = <<>> THEN 10 ELSE limit[1]
    IN  /\ interactions' = sorted
        /\ probe' = [query |-> "getRecentInteractions",
                     args |-> <<interactions, limit>>,
                     answer |-> Slice0(sorted, end)]
        /\ UNCHANGED <<now, position, memoryStream, memoryCount, memories,
                       lastInteractionTime, calls, tasks, engine, ui>>

NextRecent ==
    \/ /\ \/ \E c \in 1..Len(calls), s \in Scores : ScoreReturn(c, s)
          \/ \E c \in 1..Len(calls), e \in Embeddings : EmbedReturn(c, e)
          \/ Tick
          \/ \E ch \in Agents : Update(ch, Len(tasks) < MaxLog)
          \/ \E t \in 1..Len(tasks), reply \in Answering, id \in RandomIds :
                ReplyReturn(t, reply, id)
       /\ UNCHANGED <<probe, engine, ui>>
    \/ \E limit \in Limits : GetRecentInteractions(limit)

SpecRecent == Init /\ [][NextRecent]_vars

\* one pass of checkForInteractions over three characters: the first one
\* starts in range of both others, the collaborators answer
InitPass ==
    /\ now = StartTime
    /\ position = [StartPosition EXCEPT ![Bystander] = Aside]
    /\ memoryStream = [a \in Everybody |-> <<>>]
    /\ memoryCount = [a \in Everybody |->
           [observation |-> 0, reflection |-> 0, plan |-> 0, conversation |-> 0]]
    /\ interactions = <<>>
    /\ memories = [a \in {} |-> <<>>]
    /\ lastInteractionTime = [a \in Everybody |-> 0]
    /\ calls = <<>>
    /\ tasks = <<>>
    /\ probe = NoProbe
    /\ latestPlanIteration = [a \in Everybody |-> InitialPlanIteration]
    /\ importanceSum = [a \in Everybody |-> 0]
    /\ ops = <<>>
    /\ InitUi

NextPass ==
    /\ \/ \E c \in 1..Len(calls), s \in Scores : ScoreReturn(c, s)
       \/ \E c \in 1..Len(calls), e \in Embeddings : EmbedReturn(c, e)
       \/ Tick
       \/ \E ch \in Everybody : Update(ch, Len(tasks) < MaxTasks)
       \/ \E t \in 1..Len(tasks), reply \in Answering, id \in RandomIds :
             ReplyReturn(t, reply, id)
    /\ UNCHANGED <<probe, engine, ui>>

SpecPass == InitPass /\ [][NextPass]_vars

\* the distance predicate alone, asked of characters standing anywhere on a grid
Grid == {[x |-> x, y |-> y] : x \in {0, 60, 80, 100, 101, 150}, y \in {0, 80}}

InitCanInteract ==
    /\ now = StartTime
    /\ position \in [Agents -> Grid]
    /\ memoryStream = [a \in Agents |-> <<>>]
    /\ memoryCount = [a \in Agents |->
           [observation |-> 0, reflection |-> 0, plan |-> 0, conversation |-> 0]]
    /\ interactions = <<>>
    /\ memories = [a \in {} |-> <<>>]
    /\ lastInteractionTime = [a \in Agents |-> 0]
    /\ calls = <<>>
    /\ tasks = <<>>
    /\ probe = NoProbe
    /\ latestPlanIteration = [a \in Agents |-> InitialPlanIteration]
    /\ importanceSum = [a \in Agents |-> 0]
    /\ ops = <<>>
    /\ InitUi

\* interactionService.canInteract(agent1, agent2) is called
CanInteractCall(ch1, ch2) ==
    /\ probe' = [query |-> "canInteract",
                 args |-> <<position[ch1], position[ch2]>>,
                 answer |-> <<canInteract(position[ch1], position[ch2])>>]
    /\ UNCHANGED <<now, position, memoryStream, memoryCount, interactions,
                   memories, lastInteractionTime, calls, tasks, engine, ui>>

NextCanInteract == \E ch1, ch2 \in Agents : CanInteractCall(ch1, ch2)

SpecCanInteract == InitCanInteract /\ [][NextCanInteract]_vars

---------------------------------------------------------------------------
(* The planning engine: Agent.createPlan(force), called by MainScene.create.  *)
(* Its code is not part of these sources; it is modelled from the design      *)
(* document (Planning Engine): a DAY-level generation, then the decomposition *)
(* of the activity covering now into HOUR items and of the current hour into  *)
(* MINUTE items, each step waiting for the text-generation collaborator.      *)

PlanId(n) == <<"plan", n>>

\* what the collaborator generates: a sequence of items with a window of
\* offsets, or nothing usable
Item(description, start, end) ==
    [description |-> <<description>>, start |-> start, end |-> end]
DayActivities == {<<>>, <<Item("work", 0, 8), Item("rest", 8, 24)>>}
HourItems == {<<>>, <<Item("write", 0, 1)>>}
MinuteItems == {<<Item("type", 0, 1)>>}

\* the offset of `now` in the planning horizon
Offset(t) == (t - StartTime) \div TickMs

\* nothing usable was generated: one filler item over the remaining window
OrFiller(items, from, to) ==
    IF items = <<>> THEN <<Item("idle", from, to)>> ELSE items

\* the item whose window holds the offset; the first one when none does
Covering(items, at) ==
    LET holding == {i \in 1..Len(items) : items[i].start <= at /\ at < items[i].end}
    IN  IF holding = {} THEN 1 ELSE CHOOSE i \in holding : \A j \in holding : i <= j

\* the Plan memory persisted for an item, the n-th plan of its agent
NewPlan(n, item, how) ==
    [id |-> PlanId(n),
     createdAt |-> DateToString(how.at),
     description |-> item.description,
     importance |-> how.importance,
     latestAccess |-> DateToString(how.at),
     embedding |-> how.embedding,
     type |-> "PLAN",
     iteration |-> how.iteration,
     granularity |-> how.granularity,
     start |-> item.start,
     end |-> item.end,
     parent |-> how.parent]

\* the items persisted in order, numbered on from the agent's plan counter
PlansOf(count, items, how) ==
    [i \in 1..Len(items) |-> NewPlan(count + i, items[i], how)]

\* a DAY plan of the agent's current iteration is in its stream
DayPlanExists(a) ==
    \E k \in 1..Len(memoryStream[a]) :
        /\ memoryStream[a][k].type = "PLAN"
        /\ memoryStream[a][k].granularity = "DAY"
        /\ memoryStream[a][k].iteration = latestPlanIteration[a]

\* createPlan(force) is called: nothing to do when a DAY plan of the current
\* iteration exists and force is not set; otherwise the day's activities are
\* requested
CreatePlan(a, force) ==
    /\ Len(ops) < MaxPlans
    /\ force \/ ~DayPlanExists(a)
    /\ ops' = Append(ops, [kind |-> "createPlan", agent |-> a, pc |-> "day",
                           parent |-> <<>>, iteration |-> 0])
    /\ UNCHANGED <<now, position, memoryStream, memoryCount, interactions, memories,
                   lastInteractionTime, calls, tasks, probe, ui,
                   latestPlanIteration, importanceSum>>

\* the steps of createPlan have this much in common: the items are persisted
\* at the end of the agent's stream and counted
PersistPlans(a, plans) ==
    /\ memoryStream' = [memoryStream EXCEPT ![a] = @ \o plans]
    /\ memoryCount' = [memoryCount EXCEPT ![a].plan = @ + Len(plans)]
    /\ UNCHANGED <<now, position, interactions, memories, lastInteractionTime,
                   calls, tasks, probe, ui, importanceSum>>

\* the day's activities arrive.  A generation that supersedes a DAY plan of the
\* current iteration is a fresh one and takes the next iteration; the first
\* generation takes the iteration the agent was constructed with.
DayGenerated(o, generated, importance, embedding) ==
    /\ ops[o].kind = "createPlan" /\ ops[o].pc = "day"
    /\ LET a == ops[o].agent
           iteration == IF DayPlanExists(a) THEN latestPlanIteration[a] + 1
                        ELSE latestPlanIteration[a]
           items == OrFiller(generated, Offset(now), 24)
           plans == PlansOf(memoryCount[a].plan, items,
                            [at |-> now, importance |-> importance,
                             embedding |-> embedding, iteration |-> iteration,
                             granularity |-> "DAY", parent |-> <<>>])
       IN  /\ latestPlanIteration' = [latestPlanIteration EXCEPT ![a] = iteration]
           /\ ops' = [ops EXCEPT ![o].pc = "hour",
                                 ![o].iteration = iteration,
                                 ![o].parent = <<plans[Covering(items, Offset(now))].id>>]
           /\ PersistPlans(a, plans)

\* the HOUR items of the activity covering now arrive: children of that DAY plan
HourDecomposed(o, generated, importance, embedding) ==
    /\ ops[o].kind = "createPlan" /\ ops[o].pc = "hour"
    /\ LET a == ops[o].agent
           items == OrFiller(generated, 0, 1)
           plans == PlansOf(memoryCount[a].plan, items,
                            [at |-> now, importance |-> importance,
                             embedding |-> embedding, iteration |-> ops[o].iteration,
                             granularity |-> "HOUR", parent |-> ops[o].parent])
       IN  /\ ops' = [ops EXCEPT ![o].pc = "minute",
                                 ![o].parent = <<plans[Covering(items, 0)].id>>]
           /\ PersistPlans(a, plans)
           /\ UNCHANGED latestPlanIteration

\* the MINUTE items of the current hour arrive: children of that HOUR plan
MinuteDecomposed(o, generated, importance, embedding) ==
    /\ ops[o].kind = "createPlan" /\ ops[o].pc = "minute"
    /\ LET a == ops[o].agent
           items == OrFiller(generated, 0, 1)
           plans == PlansOf(memoryCount[a].plan, items,
                            [at |-> now, importance |-> importance,
                             embedding |-> embedding, iteration |-> ops[o].iteration,
                             granularity |-> "MINUTE", parent |-> ops[o].parent])
       IN  /\ ops' = [ops EXCEPT ![o].pc = "done"]
           /\ PersistPlans(a, plans)
           /\ UNCHANGED latestPlanIteration

NextPlan ==
    \/ \E a \in Agents, force \in BOOLEAN : CreatePlan(a, force)
    \/ \E o \in 1..Len(ops), g \in DayActivities, s \in Scores, e \in Embeddings :
          DayGenerated(o, g, s, e)
    \/ \E o \in 1..Len(ops), g \in HourItems, s \in Scores, e \in Embeddings :
          HourDecomposed(o, g, s, e)
    \/ \E o \in 1..Len(ops), g \in MinuteItems, s \in Scores, e \in Embeddings :
          MinuteDecomposed(o, g, s, e)

SpecPlan == Init /\ [][NextPlan]_vars

---------------------------------------------------------------------------
(* The memory subsystem's retrieve(query, k, now).  Its code is not part of   *)
(* these sources; it is modelled from the design document (Memory Subsystem). *)
(* Scores are whole numbers: recency halves from 8 with every clock reading   *)
(* elapsed, importance counts as scored (0..10), cosine similarity is taken   *)
(* times 10; the three weights are equal.                                     *)

\* the clock reading a stamp written by dateToString stands for
StringToDate(stamp) == stamp[2]

\* what the embedder answers for a text: vectors of length one along an axis
UnitEmbeddings == {<<1, 0>>, <<0, 1>>}

RECURSIVE Dot(_, _)
Dot(u, v) == IF u = <<>> THEN 0 ELSE Head(u) * Head(v) + Dot(Tail(u), Tail(v))

CosineSimilarity(u, v) == (10 * Dot(u, v)) \div (Sqrt(Dot(u, u)) * Sqrt(Dot(v, v)))

\* exponential decay of the time since the last access
Recency(t, latestAccess) == 8 \div (2 ^ ((t - StringToDate(latestAccess)) \div TickMs))

RetrievalScore(memory, q, t) ==
    Recency(t, memory.latestAccess) + memory.importance
        + CosineSimilarity(q, memory.embedding)

\* memory i of the stream ranks before memory j, given every memory's score:
\* the higher score, then the more recent createdAt, then the earlier place in
\* the stream
RanksBefore(stream, score, i, j) ==
    LET ci == StringToDate(stream[i].createdAt)
        cj == StringToDate(stream[j].createdAt)
    IN  \/ score[i] > score[j]
        \/ score[i] = score[j] /\ ci > cj
        \/ score[i] = score[j] /\ ci = cj /\ i < j

\* the places of the stream, best first
Ranked(stream, q, t) ==
    LET score == [i \in 1..Len(stream) |-> RetrievalScore(stream[i], q, t)]
        ahead == [i \in 1..Len(stream) |->
                     Cardinality({j \in 1..Len(stream) : RanksBefore(stream, score, j, i)})]
    IN  [r \in 1..Len(stream) |-> CHOOSE i \in 1..Len(stream) : ahead[i] = r - 1]

\* the places retrieve returns: the k best, k bounded by settings.attention
Retrieved(stream, q, k, t) ==
    LET atMost == IF k < attention THEN k ELSE attention
        n == IF Len(stream) < atMost THEN Len(stream) ELSE atMost
    IN  SubSeq(Ranked(stream, q, t), 1, n)

\* a slip: every memory scored is stamped, returned or not
TouchedAll(stream, places, t) ==
    [i \in 1..Len(stream) |-> [stream[i] EXCEPT !.latestAccess = DateToString(t)]]

\* the stream with latestAccess of the returned memories set to t
Touched(stream, places, t) ==
    [i \in 1..Len(stream) |->
        IF \E r \in 1..Len(places) : places[r] = i
        THEN [stream[i] EXCEPT !.latestAccess = DateToString(t)]
        ELSE stream[i]]

\* retrieve(query, k) is called: the query's embedding is requested
RetrieveCall(a, k) ==
    /\ Len(ops) < MaxRetrieves
    /\ ops' = Append(ops, [kind |-> "retrieve", agent |-> a, pc |-> "embed",
                           k |-> k, returned |-> <<>>])
    /\ UNCHANGED <<now, position, memoryStream, memoryCount, interactions, memories,
                   lastInteractionTime, calls, tasks, probe, ui,
                   latestPlanIteration, importanceSum>>

\* the query's embedding arrives: the stream as it is now is scored and ranked,
\* the k best are stamped and returned
RetrieveEmbedded(o, q) ==
    /\ ops[o].kind = "retrieve" /\ ops[o].pc = "embed"
    /\ LET a == ops[o].agent
           places == Retrieved(memoryStream[a], q, ops[o].k, now)
           stream == Touched(memoryStream[a], places, now)
       IN  /\ memoryStream' = [memoryStream EXCEPT ![a] = stream]
           /\ ops' = [ops EXCEPT ![o].pc = "done", ![o].returned = places]
           /\ probe' = [query |-> "retrieve",
                        args |-> <<a, q, ops[o].k, now>>,
                        answer |-> [r \in 1..Len(places) |-> stream[places[r]]]]
    /\ UNCHANGED <<now, position, memoryCount, interactions, memories,
                   lastInteractionTime, calls, tasks, ui,
                   latestPlanIteration, importanceSum>>

\* one agent's memory subsystem, and the result counts asked for
Retriever == Characters[1]
ResultCounts == {1, 2}

NextRetrieve ==
    \/ /\ \/ \E d \in SceneDescriptions :
                SceneObserve(Retriever, d, Cardinality(SceneCalls) < MaxMemories)
          \/ \E c \in 1..Len(calls), s \in Scores : ScoreReturn(c, s)
          \/ \E c \in 1..Len(calls), e \in UnitEmbeddings : EmbedReturn(c, e)
          \/ Tick
       /\ UNCHANGED <<probe, engine, ui>>
    \/ \E k \in ResultCounts : RetrieveCall(Retriever, k)
    \/ \E o \in 1..Len(ops), q \in UnitEmbeddings : RetrieveEmbedded(o, q)

SpecRetrieve == Init /\ [][NextRetrieve]_vars

---------------------------------------------------------------------------
(* The reflection engine: maybeReflect, checked after every append of an      *)
(* Observation.  Its code is not part of these sources; it is modelled from   *)
(* the design document (Reflection Engine): the importance of the appended    *)
(* observations is summed; at the threshold the most salient memories are     *)
(* selected by retrieve, an insight is requested from the text-generation     *)
(* collaborator and appended as a Reflection, and the sum starts again.       *)

ReflectionId(n) == <<"ref", n>>

\* the threshold derived from the agent's retention setting
ReflectionThreshold == retention

\* what the scorer answers for an observation: half the threshold, or all of it
HalfAndFull == {retention \div 2, retention}

\* the Reflection appended for an insight
NewReflection(mc, description, importance, embedding, evidence, t) ==
    [id |-> ReflectionId(mc.reflection + 1),
     createdAt |-> DateToString(t),
     description |-> description,
     importance |-> importance,
     latestAccess |-> DateToString(t),
     embedding |-> embedding,
     type |-> "REFLECTION",
     evidence |-> evidence]

\* the Observation of observe call c is appended (Agent.observe), its
\* importance is added to the agent's running sum, and maybeReflect looks at
\* the sum: at the threshold a synthesis starts, with the embedding of its
\* question requested first
ObservedThenMaybeReflect(c, e) ==
    /\ EmbedReturn(c, e)
    /\ LET a == calls[c].agent
           sum == importanceSum[a] + calls[c].importance
       IN  /\ importanceSum' = [importanceSum EXCEPT ![a] = sum]
           /\ ops' = IF sum >= ReflectionThreshold
                     THEN Append(ops, [kind |-> "reflect", agent |-> a, pc |-> "select",
                                       sum |-> sum, evidence |-> <<>>])
                     ELSE ops
    /\ UNCHANGED <<probe, ui, latestPlanIteration>>

\* the question's embedding arrives: retrieve picks the most salient memories,
\* which are the evidence, and the insight is requested
ReflectSelected(o, q) ==
    /\ ops[o].kind = "reflect" /\ ops[o].pc = "select"
    /\ LET a == ops[o].agent
           places == Retrieved(memoryStream[a], q, MaxEvidence, now)
       IN  /\ memoryStream' = [memoryStream EXCEPT ![a] = Touched(@, places, now)]
           /\ ops' = [ops EXCEPT ![o].pc = "generate",
                                 ![o].evidence = [r \in 1..Len(places) |->
                                                     memoryStream[a][places[r]].id]]
    /\ UNCHANGED <<now, position, memoryCount, interactions, memories,
                   lastInteractionTime, calls, tasks, probe, ui,
                   latestPlanIteration, importanceSum>>

\* a slip: the sum starts again whether or not the synthesis succeeded
ReflectionFailedResetting(o) ==
    /\ ops[o].kind = "reflect" /\ ops[o].pc \in {"select", "generate"}
    /\ ops' = [ops EXCEPT ![o].pc = "failed"]
    /\ importanceSum' = [importanceSum EXCEPT ![ops[o].agent] = 0]
    /\ UNCHANGED <<now, position, memoryStream, memoryCount, interactions, memories,
                   lastInteractionTime, calls, tasks, probe, ui, latestPlanIteration>>

\* the collaborator fails: the reflection is put off, the sum stays
ReflectionFailed(o) ==
    /\ ops[o].kind = "reflect" /\ ops[o].pc \in {"select", "generate"}
    /\ ops' = [ops EXCEPT ![o].pc = "failed"]
    /\ UNCHANGED <<now, position, memoryStream, memoryCount, interactions, memories,
                   lastInteractionTime, calls, tasks, probe, ui,
                   latestPlanIteration, importanceSum>>

\* the insight arrives, with its score and embedding: the Reflection is
\* appended and counted, and the sum starts again from zero
ReflectionGenerated(o, importance, embedding) ==
    /\ ops[o].kind = "reflect" /\ ops[o].pc = "generate"
    /\ LET a == ops[o].agent
           memory == NewReflection(memoryCount[a], <<"insight">>, importance,
                                   embedding, ops[o].evidence, now)
       IN  /\ memoryStream' = [memoryStream EXCEPT ![a] = Push(@, memory)]
           /\ memoryCount' = [memoryCount EXCEPT ![a].reflection = @ + 1]
           /\ importanceSum' = [importanceSum EXCEPT ![a] = 0]
           /\ ops' = [ops EXCEPT ![o].pc = "done"]
    /\ UNCHANGED <<now, position, interactions, memories, lastInteractionTime,
                   calls, tasks, probe, ui, latestPlanIteration>>

NextReflect ==
    \/ /\ \/ \E d \in SceneDescriptions :
                SceneObserve(Retriever, d, Cardinality(SceneCalls) < MaxMemories)
          \/ \E c \in 1..Len(calls), s \in HalfAndFull : ScoreReturn(c, s)
       /\ UNCHANGED <<probe, engine, ui>>
    \/ \E c \in 1..Len(calls), e \in Embeddings : ObservedThenMaybeReflect(c, e)
    \/ \E o \in 1..Len(ops), q \in Embeddings : ReflectSelected(o, q)
    \/ \E o \in 1..Len(ops), s \in Scores, e \in Embeddings :
          ReflectionGenerated(o, s, e)
    \/ \E o \in 1..Len(ops) : ReflectionFailed(o)

SpecReflect == Init /\ [][NextReflect]_vars

---------------------------------------------------------------------------
(* AgentLogger: the activity log fed by the console.log override *)

\* prevLogs.slice(0, 99): the entries kept when a new one is put in front
KeptLogs == 99

\* what is written to the console: the n-th message about an agent, or one
\* that does not mention any
AgentMessage(n) == <<"Agent", "bob", "is", "moving", n>>
OtherMessage == <<"Emoji", "changed">>

\* String.prototype.includes, on tokens
Includes(message, word) == \E k \in 1..Len(message) : message[k] = word

\* message.match(/Agent ([^is]+) is/): the name between `Agent` and `is`, or ''
AgentNameOf(message) ==
    IF \E k \in 1..(Len(message) - 2) : message[k] = "Agent" /\ message[k + 2] = "is"
    THEN <<message[(CHOOSE k \in 1..(Len(message) - 2) :
                       message[k] = "Agent" /\ message[k + 2] = "is") + 1]>>
    ELSE <<>>

\* a slip: the new entry is put in front of the whole earlier log
HandleLogUnbounded(message, agentName, type) ==
    /\ logs' = <<[timestamp |-> now, agentName |-> agentName,
                  message |-> message, type |-> type]>> \o logs
    /\ captured' = captured + 1

\* handleLog: setLogs(prev => [entry, ...prev.slice(0, 99)])
HandleLog(message, agentName, type) ==
    /\ logs' = <<[timestamp |-> now, agentName |-> agentName,
                  message |-> message, type |-> type]>> \o Slice0(logs, KeptLogs)
    /\ captured' = captured + 1

\* the overridden console.log: messages that mention an agent are captured
ConsoleLog(message) ==
    /\ captured < MaxCaptured
    /\ IF Includes(message, "Agent")
       THEN HandleLog(message, AgentNameOf(message), "action")
       ELSE UNCHANGED logger
    /\ UNCHANGED <<scene, chat, editor, storage>>

NextLogger ==
    \/ ConsoleLog(AgentMessage(captured + 1))
    \/ ConsoleLog(OtherMessage)

SpecLogger == Init /\ [][NextLogger]_vars

---------------------------------------------------------------------------
(* AgentChat: sending a message and the agent's reply.  Text is a sequence of *)
(* characters here, so that trim() is computed.                               *)

\* what the user types into the textarea
Inputs == {<<" ">>, <<" ", "h", "i">>}

\* what agent.replyWithContext resolves with
ChatReplies == {<<"o", "k">>}

RECURSIVE TrimStart(_)
TrimStart(text) ==
    IF text # <<>> /\ Head(text) = " " THEN TrimStart(Tail(text)) ELSE text

RECURSIVE TrimEnd(_)
TrimEnd(text) ==
    IF text # <<>> /\ text[Len(text)] = " "
    THEN TrimEnd(SubSeq(text, 1, Len(text) - 1)) ELSE text

\* String.prototype.trim
Trim(text) == TrimEnd(TrimStart(text))

\* prev.map(m => m === newMessage ? { ...m, status } : m)
WithStatus(list, id, status) ==
    [k \in 1..Len(list) |->
        IF list[k].id = id /\ list[k].id # 0
        THEN [list[k] EXCEPT !.status = status] ELSE list[k]]

\* onChange of the textarea
TypeInput(text) ==
    /\ inputMessage' = text
    /\ UNCHANGED <<messages, isAgentReplying, sends, chatAgent>>
    /\ UNCHANGED <<scene, logger, editor, storage>>

\* handleSendMessage up to `await agent.replyWithContext`, or to its end when
\* the input is blank or there is no agent.  The Enter key in the textarea
\* (without Shift) calls it whatever the state of the chat.
HandleSendMessage ==
    /\ IF Trim(inputMessage) # <<>>
       THEN LET id == Len(sends) + 1
                newMessage == Message(id, "user", Trim(inputMessage), "sending")
            IN  /\ Len(sends) < MaxSends
                /\ messages' = Append(messages, newMessage)
                /\ inputMessage' = <<>>
                /\ IF chatAgent
                   THEN /\ isAgentReplying' = TRUE
                        /\ sends' = Append(sends, [id |-> id, pc |-> "reply"])
                   ELSE /\ sends' = Append(sends, [id |-> id, pc |-> "returned"])
                        /\ UNCHANGED isAgentReplying
       ELSE UNCHANGED <<messages, inputMessage, isAgentReplying, sends>>
    /\ UNCHANGED chatAgent
    /\ UNCHANGED <<scene, logger, editor, storage>>

\* the submit button, which is disabled while the input is blank or the agent
\* is replying
ClickSend ==
    /\ ~(Trim(inputMessage) = <<>> \/ isAgentReplying)
    /\ HandleSendMessage

\* replyWithContext resolves: the message is sent, the reply is appended, and
\* `finally` turns the typing indicator off
ReplyResolved(n, agentReply) ==
    /\ sends[n].pc = "reply"
    /\ messages' = Append(WithStatus(messages, sends[n].id, "sent"),
                          Message(0, "agent", agentReply, "sent"))
    /\ isAgentReplying' = FALSE
    /\ sends' = [sends EXCEPT ![n].pc = "done"]
    /\ UNCHANGED <<inputMessage, chatAgent>>
    /\ UNCHANGED <<scene, logger, editor, storage>>

\* replyWithContext rejects: the message is marked, and `finally` as above
ReplyRejected(n) ==
    /\ sends[n].pc = "reply"
    /\ messages' = WithStatus(messages, sends[n].id, "error")
    /\ isAgentReplying' = FALSE
    /\ sends' = [sends EXCEPT ![n].pc = "failed"]
    /\ UNCHANGED <<inputMessage, chatAgent>>
    /\ UNCHANGED <<scene, logger, editor, storage>>

\* clearChat
ClearChat ==
    /\ messages' = <<Message(0, "agent", <<"Chat history cleared.">>, "sent")>>
    /\ UNCHANGED <<inputMessage, isAgentReplying, sends, chatAgent>>
    /\ UNCHANGED <<scene, logger, editor, storage>>

\* the chat is rendered with an agent or with none (agent: Agent | undefined)
InitChatPage ==
    /\ InitScene
    /\ InitLogger
    /\ \E agent \in BOOLEAN : InitChat(agent)
    /\ InitEditor
    /\ storage = NoItem

ReplySettles ==
    \/ \E n \in 1..Len(sends), agentReply \in ChatReplies : ReplyResolved(n, agentReply)
    \/ \E n \in 1..Len(sends) : ReplyRejected(n)

NextChat ==
    \/ \E text \in Inputs : TypeInput(text)
    \/ HandleSendMessage
    \/ ClickSend
    \/ ReplySettles
    \/ ClearChat

SpecChat == InitChatPage /\ [][NextChat]_vars

\* every replyWithContext call settles in the end
SpecChatLive == SpecChat /\ WF_vars(ReplySettles)

---------------------------------------------------------------------------
(* AgentEditor: editing the agent's details.  What is typed into an input is  *)
(* a sequence of characters.                                                  *)

TextFields == {"name"}
NumberFields == {"age", "attention"}

\* what the user types into a text input and into a number input
TextInputs == {<<>>, <<" ">>, <<"M", "o">>}
NumberInputs == {<<>>, <<"7">>, <<"1", "0">>, <<"1", "2">>, <<"-", "1">>}

DigitOf(c) ==
    CASE c = "0" -> 0 [] c = "1" -> 1 [] c = "2" -> 2 [] c = "3" -> 3 [] c = "4" -> 4
      [] c = "5" -> 5 [] c = "6" -> 6 [] c = "7" -> 7 [] c = "8" -> 8 [] c = "9" -> 9

RECURSIVE DigitsOf(_)
DigitsOf(text) ==
    IF text = <<>> THEN 0
    ELSE 10 * DigitsOf(SubSeq(text, 1, Len(text) - 1)) + DigitOf(text[Len(text)])

\* value === '' ? 0 : Number(value), for the whole numbers a number input holds
NumberOf(text) ==
    IF text = <<>> THEN 0
    ELSE IF Head(text) = "-" THEN 0 - DigitsOf(Tail(text))
    ELSE DigitsOf(text)

\* validateField: the error message, '' when there is none.  Only the optional
\* emoji, kept as one symbol, can be undefined.
ValidateField(field, value) ==
    IF field = "emoji"
    THEN (IF value = Undefined \/ value = "" THEN "required" ELSE "")
    ELSE IF field \in TextFields
         THEN (IF Trim(value) = <<>> THEN "required" ELSE "")
    ELSE IF field = "age"
         THEN (IF value < 0 THEN "Age must be a positive integer" ELSE "")
    ELSE IF field = "attention"
         THEN (IF value < 0 \/ value > 10 THEN "Value must be between 0 and 10" ELSE "")
    ELSE ""

\* { ...prev, [field]: value }
Spread(prev, field, value) ==
    [f \in DOMAIN prev \cup {field} |-> IF f = field THEN value ELSE prev[f]]

\* the useEffect on [agent, isEditing]
Reset(agent) ==
    /\ editedAgent' = agent
    /\ hasChanges' = FALSE
    /\ validationErrors' = <<>>

\* the edit button: onEditToggle, and the effect that follows the change
EditToggle ==
    /\ isEditing' = ~isEditing
    /\ Reset(agentDetails)
    /\ UNCHANGED agentDetails
    /\ UNCHANGED <<scene, logger, chat, storage>>

\* handleInputChange(e, field), in edit mode
HandleInputChange(field, text) ==
    /\ isEditing
    /\ LET newValue == IF field \in NumberFields THEN NumberOf(text) ELSE text
           error == ValidateField(field, newValue)
       IN  /\ validationErrors' = Spread(validationErrors, field, error)
           /\ editedAgent' = Spread(editedAgent, field, newValue)
           /\ hasChanges' = TRUE
    /\ UNCHANGED <<isEditing, agentDetails>>
    /\ UNCHANGED <<scene, logger, chat, storage>>

\* handleCancel, in edit mode: onCancel is setIsEditing(false)
HandleCancel ==
    /\ isEditing
    /\ Reset(agentDetails)
    /\ isEditing' = FALSE
    /\ UNCHANGED agentDetails
    /\ UNCHANGED <<scene, logger, chat, storage>>

\* the `disabled` attribute of the Save button
SaveDisabled == ~hasChanges \/ Cardinality(DOMAIN validationErrors) > 0

\* the Save button reacts to a click only when it is not disabled, and it is
\* disabled in every state the editor reaches, so handleSave is no step here
NextEditor ==
    \/ EditToggle
    \/ \E field \in TextFields, text \in TextInputs : HandleInputChange(field, text)
    \/ \E field \in NumberFields, text \in NumberInputs : HandleInputChange(field, text)
    \/ HandleCancel

SpecEditor == Init /\ [][NextEditor]_vars

---------------------------------------------------------------------------
(* agentService: the agents kept in localStorage under one key.  An object is *)
(* a sequence of <<key, value>> entries in insertion order; the stored item   *)
(* is JSON text: per agent the <<field, value>> pairs that JSON.stringify     *)
(* writes.                                                                    *)

FieldOrder == <<"id", "name", "age", "attention", "emoji">>

\* the ids and the details the service is called with
StoredIds == {"lucy_miller", "tom_moreno"}
SomeDetails ==
    {[id |-> id, name |-> name, age |-> 16, attention |-> 8, emoji |-> emoji] :
        id \in StoredIds, name \in {<<"L", "u">>, <<"T">>}, emoji \in {Undefined, "x"}}

\* the fields JSON.stringify writes: a property that is undefined is left out
Written(agent) ==
    {f \in DOMAIN agent : ~(f = "emoji" /\ agent[f] = Undefined)}

\* what reading an agent back gives: the agent without its undefined fields
DropUndefined(agent) == [f \in Written(agent) |-> agent[f]]

\* JSON.stringify of one agent and of the object of agents
StringifyAgent(agent) ==
    LET places == {k \in 1..Len(FieldOrder) : FieldOrder[k] \in Written(agent)}
        nth(r) == CHOOSE k \in places : Cardinality({j \in places : j < k}) = r - 1
    IN  [r \in 1..Cardinality(places) |-> <<FieldOrder[nth(r)], agent[FieldOrder[nth(r)]]>>]

Stringify(agents) ==
    [k \in 1..Len(agents) |-> <<agents[k][1], StringifyAgent(agents[k][2])>>]

\* JSON.parse
ParseAgent(pairs) ==
    [f \in {pairs[k][1] : k \in 1..Len(pairs)} |->
        pairs[CHOOSE k \in 1..Len(pairs) : pairs[k][1] = f][2]]

Parse(text) == [k \in 1..Len(text) |-> <<text[k][1], ParseAgent(text[k][2])>>]

\* where key is in the object, 0 when it is not
PlaceOf(object, key) ==
    IF \E k \in 1..Len(object) : object[k][1] = key
    THEN CHOOSE k \in 1..Len(object) : object[k][1] = key
    ELSE 0

\* a slip: the entry is added whether or not the key is there already
SetAppending(object, key, value) == Append(object, <<key, value>>)

\* object[key] = value
Set(object, key, value) ==
    IF PlaceOf(object, key) = 0 THEN Append(object, <<key, value>>)
    ELSE [object EXCEPT ![PlaceOf(object, key)] = <<key, value>>]

\* delete object[key]
Delete(object, key) ==
    LET kept == {k \in 1..Len(object) : object[k][1] # key}
        nth(r) == CHOOSE k \in kept : Cardinality({j \in kept : j < k}) = r - 1
    IN  [r \in 1..Cardinality(kept) |-> object[nth(r)]]

\* agentService.getAllAgents
GetAllAgents(store) == IF store.present THEN Parse(store.text) ELSE <<>>

\* agentService.getAgent: <<agent>>, or <<>> for null
GetAgent(store, id) ==
    LET agents == GetAllAgents(store)
    IN  IF PlaceOf(agents, id) = 0 THEN <<>> ELSE <<agents[PlaceOf(agents, id)][2]>>

\* agentService.saveAgent
SaveAgent(store, agent) ==
    [present |-> TRUE, text |-> Stringify(Set(GetAllAgents(store), agent.id, agent))]

\* agentService.deleteAgent
DeleteAgent(store, id) ==
    [present |-> TRUE, text |-> Stringify(Delete(GetAllAgents(store), id))]

\* a slip: the default agent is saved without looking
InitializeDefaultAgentAlways(store, defaultAgent) == SaveAgent(store, defaultAgent)

\* agentService.initializeDefaultAgent
InitializeDefaultAgent(store, defaultAgent) ==
    IF GetAgent(store, defaultAgent.id) = <<>>
    THEN SaveAgent(store, defaultAgent)
    ELSE store

\* the calls of the service; `probe` keeps the last call and what it returned
ServiceCall(query, args, answer, store) ==
    /\ probe' = [query |-> query, args |-> args, answer |-> answer]
    /\ storage' = store
    /\ UNCHANGED <<now, position, memoryStream, memoryCount, interactions, memories,
                   lastInteractionTime, calls, tasks, engine>>
    /\ UNCHANGED <<logger, chat, editor>>

GetAgentCall(id) ==
    ServiceCall("getAgent", <<id>>, GetAgent(storage, id), storage)

SaveAgentCall(agent) ==
    ServiceCall("saveAgent", <<agent>>, <<>>, SaveAgent(storage, agent))

DeleteAgentCall(id) ==
    ServiceCall("deleteAgent", <<id>>, <<>>, DeleteAgent(storage, id))

InitializeDefaultAgentCall(defaultAgent) ==
    ServiceCall("initializeDefaultAgent", <<defaultAgent>>, <<>>,
                InitializeDefaultAgent(storage, defaultAgent))

NextStore ==
    \/ \E id \in StoredIds : GetAgentCall(id)
    \/ \E agent \in SomeDetails : SaveAgentCall(agent)
    \/ \E id \in StoredIds : DeleteAgentCall(id)
    \/ \E agent \in SomeDetails : InitializeDefaultAgentCall(agent)

SpecStore == Init /\ [][NextStore]_vars

---------------------------------------------------------------------------
(* Claims *)

Range(s) == {s[i] : i \in 1..Len(s)}
Tasks == 1..Len(tasks)
Calls == 1..Len(calls)

\* the createInteraction call of task t has returned its interaction, and the
\* task has not started another one since
Returned(t) == tasks[t].returned >= 1 /\ tasks[t].interaction # NoInteraction

\* the observe calls that createInteraction call made on agent a and that
\* appended a memory
AppendsOf(t, a) ==
    {c \in Calls : /\ calls[c].caller = t
                   /\ calls[c].round = tasks[t].returned
                   /\ calls[c].agent = a
                   /\ calls[c].pc = "done"}

\* C1: the k-th Observation appended to an agent's stream has id obs_k, so the
\* ids of the stream are strictly increasing and none is assigned twice
C1_IdsFollowStreamOrder ==
    \A a \in Agents : \A k \in 1..Len(memoryStream[a]) :
        memoryStream[a][k].id = ObservationId(k)

\* two observe calls on one agent were in flight together and both appended
C1_Witness ==
    \E a \in Agents : \E c, d \in Calls :
        /\ c < d
        /\ calls[c].agent = a /\ calls[d].agent = a
        /\ calls[c].pc = "done" /\ calls[d].pc = "done"
        /\ calls[d].at < calls[c].at

\* C2: once createInteraction has returned an interaction, initiator and target
\* have each gained exactly one memory from that call, and it carries the
\* interaction's content
C2_OneMemoryEach ==
    \A t \in Tasks : Returned(t) =>
        \A a \in {tasks[t].interaction.initiatorId, tasks[t].interaction.targetId} :
            /\ Cardinality(AppendsOf(t, a)) = 1
            /\ \A c \in AppendsOf(t, a) :
                  /\ calls[c].at \in 1..Len(memoryStream[a])
                  /\ memoryStream[a][calls[c].at].description
                        = tasks[t].interaction.content

\* a createInteraction call has returned
C2_Witness == \E t \in Tasks : Returned(t) /\ tasks[t].pc = "done"

\* C3: when one of the two appends of createInteraction fails, nothing of the
\* interaction remains: no record in the log, no entry in either cross-agent
\* list, no memory in either stream
C3_FailedInteractionDiscarded ==
    \A t \in Tasks : tasks[t].error = "ScoringUnavailable" =>
        /\ tasks[t].interaction \notin Range(interactions)
        /\ \A a \in {tasks[t].interaction.initiatorId, tasks[t].interaction.targetId} :
              /\ AppendsOf(t, a) = {}
              /\ \A m \in Range(getAgentMemories(a)) :
                    ~(m.content = tasks[t].interaction.content
                      /\ m.timestamp = tasks[t].interaction.timestamp)

\* C4: two interactions of one ordered pair are at least a cooldown apart
C4_OnePerWindow ==
    \A i, j \in 1..Len(interactions) :
        (/\ i < j
         /\ interactions[i].initiatorId = interactions[j].initiatorId
         /\ interactions[i].targetId = interactions[j].targetId)
        => \/ interactions[j].timestamp - interactions[i].timestamp
                >= minInteractionInterval
           \/ interactions[i].timestamp - interactions[j].timestamp
                >= minInteractionInterval

\* a createInteraction call is under way: started, and neither returned (the
\* stamps follow the return in the same job) nor rejected
InFlight(t) == tasks[t].pc \in {"reply", "notify"}
Pair(t) == {tasks[t].self, Characters[tasks[t].idx]}

\* C5: no two interactions that share an agent are in flight at once
C5_PairIsCriticalSection ==
    \A t, u \in Tasks :
        (t # u /\ InFlight(t) /\ InFlight(u)) => Pair(t) \cap Pair(u) = {}

\* C6: the step in which an observe call fails (scorer or embedder) leaves
\* every memoryStream and memoryCount as it was
C6_FailedObserveChangesNothing ==
    [][(\E c \in Calls : calls[c].pc # "failed" /\ calls'[c].pc = "failed")
          => UNCHANGED <<memoryStream, memoryCount>>]_vars

\* an observe call failed at the embedder, after the scorer had answered, on an
\* agent whose stream holds a memory
C6_Witness ==
    \E c \in Calls :
        /\ calls[c].pc = "failed"
        /\ calls[c].importance \in Scores
        /\ memoryStream[calls[c].agent] # <<>>

\* C7: a stream only grows at its end: every memory stays at its position with
\* its id, createdAt, description, importance and embedding
C7_AppendOnly ==
    [][\A a \in Agents :
          /\ Len(memoryStream'[a]) >= Len(memoryStream[a])
          /\ \A k \in 1..Len(memoryStream[a]) :
                /\ memoryStream'[a][k].id = memoryStream[a][k].id
                /\ memoryStream'[a][k].createdAt = memoryStream[a][k].createdAt
                /\ memoryStream'[a][k].description = memoryStream[a][k].description
                /\ memoryStream'[a][k].importance = memoryStream[a][k].importance
                /\ memoryStream'[a][k].embedding = memoryStream[a][k].embedding]_vars

\* a stream holds a memory from the scene's observe and, after it, one from
\* createInteraction
C7_Witness ==
    \E a \in Agents : \E c, d \in Calls :
        /\ calls[c].agent = a /\ calls[d].agent = a
        /\ calls[c].caller = 0 /\ calls[d].caller # 0
        /\ calls[c].pc = "done" /\ calls[d].pc = "done"
        /\ calls[c].at < calls[d].at

\* C8: lastInteractionTime of a character changes only in the job in which a
\* createInteraction call of which it is initiator or target returns its
\* interaction
C8_StampOnlyAfterSuccess ==
    [][\A ch \in Agents :
          lastInteractionTime'[ch] # lastInteractionTime[ch]
          => \E t \in Tasks :
                /\ tasks[t].pc = "notify"
                /\ tasks'[t].returned = tasks[t].returned + 1
                /\ tasks[t].interaction # NoInteraction
                /\ ch \in Pair(t)]_vars

\* both characters of a returned interaction are stamped with its time
C8_Witness ==
    \E t \in Tasks :
        /\ Returned(t) /\ tasks[t].pc = "done"
        /\ \A ch \in Pair(t) : lastInteractionTime[ch] = tasks[t].interaction.timestamp

\* C9: an interaction with placeholder content (no '|') is taken as valid: the
\* resumed checkForInteractions does not throw, and both characters are stamped
C9_PlaceholderIsValid ==
    \A t \in Tasks :
        (/\ Returned(t)
         /\ tasks[t].interaction.content \in {ConversationPlaceholder, RumorPlaceholder})
        => /\ tasks[t].pc # "rejected"
           /\ \A ch \in Pair(t) :
                 lastInteractionTime[ch] >= tasks[t].interaction.timestamp

\* C10: when engine.reply rejects or answers nothing, the content is the
\* placeholder of the interaction type and createInteraction goes on
C10_PlaceholderOnFailure ==
    \A t \in Tasks : (tasks[t].pc # "reply" /\ tasks[t].replyFailed) =>
        /\ tasks[t].error # "GenerationUnavailable"
        /\ tasks[t].content = IF tasks[t].type = "conversation"
                              THEN ConversationPlaceholder ELSE RumorPlaceholder
        /\ tasks[t].interaction.content = tasks[t].content

\* the reply failed and the interaction was recorded with the placeholder
C10_Witness ==
    \E t \in Tasks :
        /\ tasks[t].replyFailed
        /\ tasks[t].interaction \in Range(interactions)
        /\ tasks[t].interaction.content = ConversationPlaceholder

\* C11 (as stated): when content generation fails for a conversation or a
\* rumor, createInteraction returns none and no interaction is recorded
C11_NoneOnGenerationFailure ==
    \A t \in Tasks : (tasks[t].pc # "reply" /\ tasks[t].replyFailed) =>
        /\ tasks[t].interaction = NoInteraction
        /\ \A i \in 1..Len(interactions) :
              ~(/\ interactions[i].initiatorId = tasks[t].self
                /\ interactions[i].content \in {ConversationPlaceholder, RumorPlaceholder})

\* C11 (amended): when content generation fails, createInteraction does not
\* return none: the interaction it builds, of the type asked for, is recorded
\* in the log
C11_RecordedOnGenerationFailure ==
    \A t \in Tasks : (tasks[t].pc # "reply" /\ tasks[t].replyFailed) =>
        /\ tasks[t].interaction # NoInteraction
        /\ tasks[t].interaction \in Range(interactions)
        /\ tasks[t].interaction.type = tasks[t].type

\* a rumor whose generation failed was recorded, both observes resolved and
\* createInteraction returned it
C11_Witness ==
    \E t \in Tasks :
        /\ tasks[t].replyFailed
        /\ tasks[t].type = "rumor"
        /\ tasks[t].returned >= 1
        /\ tasks[t].interaction \in Range(interactions)

\* an observe call is in flight: called, and neither resolved nor rejected
Pending(c) == calls[c].pc \in {"score", "embed"}

\* C12: no two operations that read-then-write one agent's memory stream are
\* in flight at once
C12_OneOperationPerAgent ==
    \A c, d \in Calls :
        (c # d /\ calls[c].agent = calls[d].agent) => ~(Pending(c) /\ Pending(d))

\* the square of the Euclidean distance of two positions
Dist2(p, q) == (p.x - q.x) * (p.x - q.x) + (p.y - q.y) * (p.y - q.y)

\* C13: canInteract answers true exactly when the distance of the two positions
\* is at most 100 (true at 80 and at 100, false at 150), answers the same with
\* its arguments swapped, and changes no state
C13_CanInteract ==
    [][probe'.query = "canInteract" =>
          LET p == probe'.args[1]
              q == probe'.args[2]
              answer == probe'.answer[1]
          IN  /\ answer = (Dist2(p, q) <= 100 * 100)
              /\ Dist2(p, q) = 80 * 80 => answer = TRUE
              /\ Dist2(p, q) = 100 * 100 => answer = TRUE
              /\ Dist2(p, q) = 150 * 150 => answer = FALSE
              /\ answer = canInteract(q, p)
              /\ UNCHANGED <<now, position, memoryStream, memoryCount, interactions,
                             memories, lastInteractionTime, calls, tasks, engine>>]_vars

\* canInteract was asked of two characters exactly 100 apart, and answered true
C13_Witness ==
    /\ probe.query = "canInteract"
    /\ Dist2(probe.args[1], probe.args[2]) = 100 * 100
    /\ probe.args[1].x # probe.args[2].x /\ probe.args[1].y # probe.args[2].y
    /\ probe.answer = <<TRUE>>

\* C14: a createInteraction call is started only for two characters at most the
\* threshold apart at that moment, and every record added to the log comes from
\* a call so started, with its initiator and target
C14_InitiatedInRange ==
    [][/\ \A t \in 1..Len(tasks') :
             (tasks'[t].pc = "reply" /\ (t > Len(tasks) \/ tasks[t].pc # "reply"))
             => Dist2(position[tasks'[t].self], position[Characters[tasks'[t].idx]])
                   <= proximityThreshold * proximityThreshold
       /\ Len(interactions') > Len(interactions)
             => \E t \in Tasks :
                   /\ tasks[t].pc = "reply"
                   /\ interactions'[Len(interactions')].initiatorId = tasks[t].self
                   /\ interactions'[Len(interactions')].targetId = Characters[tasks[t].idx]]_vars

\* an interaction is in the log whose characters have since walked out of range
C14_Witness ==
    \E i \in 1..Len(interactions) :
        Dist2(position[interactions[i].initiatorId], position[interactions[i].targetId])
            > proximityThreshold * proximityThreshold

\* C15: the memory observe appends carries one instant: right after the append
\* its createdAt equals its latestAccess
C15_StampedWithOneInstant ==
    [][\A a \in Agents :
          Len(memoryStream'[a]) > Len(memoryStream[a])
          => LET memory == memoryStream'[a][Len(memoryStream'[a])]
             IN  memory.createdAt = memory.latestAccess]_vars

\* C16: an observe call waiting on the scorer or the embedder holds up no call
\* on another agent: whatever the other agent's call waits for can answer, and
\* the call then goes on, while the first is still waiting
C16_OtherAgentsNotBlocked ==
    \A c, d \in Calls :
        (calls[c].agent # calls[d].agent /\ Pending(c)) =>
            /\ calls[d].pc = "score" => \A s \in Scores : ENABLED ScoreReturn(d, s)
            /\ calls[d].pc = "embed" => \A e \in Embeddings : ENABLED EmbedReturn(d, e)

\* an observe on one agent is still waiting, and an observe on another agent
\* that was called after it has appended its memory and returned
C16_Witness ==
    \E c, d \in Calls :
        /\ c < d
        /\ calls[c].agent # calls[d].agent
        /\ Pending(c)
        /\ calls[d].pc = "done"
        /\ calls[d].at \in 1..Len(memoryStream[calls[d].agent])
        /\ memoryStream[calls[d].agent][calls[d].at].description = calls[d].description

\* how often r occurs in seq
Count(seq, r) == Cardinality({i \in 1..Len(seq) : seq[i] = r})

\* C17: getRecentInteractions(limit) answers with at most limit interactions
\* (10 when no limit is given), newest first, and they are the limit most recent
\* of the log it was asked of: as many as the log allows, each taken from the
\* log, none of those left out newer than one that was taken
C17_MostRecentFirst ==
    probe.query = "getRecentInteractions" =>
        LET log == probe.args[1]
            limit == IF probe.args[2] = <<>> THEN 10 ELSE probe.args[2][1]
            answer == probe.answer
        IN  /\ Len(answer) <= limit
            /\ \A i \in 1..(Len(answer) - 1) :
                  answer[i].timestamp >= answer[i + 1].timestamp
            /\ Len(answer) = IF Len(log) < limit THEN Len(log) ELSE limit
            /\ \A r \in Range(answer) : Count(answer, r) <= Count(log, r)
            /\ \A r \in Range(log) :
                  Count(answer, r) < Count(log, r)
                  => \A i \in 1..Len(answer) : answer[i].timestamp >= r.timestamp

\* the log held an older interaction before a newer one, and the one most
\* recent interaction was asked for
C17_Witness ==
    /\ probe.query = "getRecentInteractions"
    /\ probe.args[2] = <<1>>
    /\ Len(probe.args[1]) = 2
    /\ probe.args[1][1].timestamp < probe.args[1][2].timestamp
    /\ probe.answer = <<probe.args[1][2]>>

\* the createPlan calls of agent a whose DAY-level generation has been persisted
DayGenerations(a) ==
    {o \in 1..Len(ops) : /\ ops[o].kind = "createPlan"
                         /\ ops[o].agent = a
                         /\ ops[o].pc # "day"}

\* the iterations the DAY plans of agent a's stream carry
DayIterations(a) ==
    {memoryStream[a][k].iteration :
        k \in {j \in 1..Len(memoryStream[a]) :
                 /\ memoryStream[a][j].type = "PLAN"
                 /\ memoryStream[a][j].granularity = "DAY"}}

\* C18: after n DAY-level generations of an agent its DAY plans carry the
\* iterations 1..n (1 and 2 after two calls of createPlan(true)), and
\* latestPlanIteration moves only in the step that persists a DAY-level
\* generation, by one, never in a decomposition step
C18_IterationPerDayGeneration ==
    [][\A a \in Agents :
          /\ DayIterations(a)' = 1..Cardinality(DayGenerations(a)')
          /\ latestPlanIteration'[a] # latestPlanIteration[a]
             => /\ latestPlanIteration'[a] = latestPlanIteration[a] + 1
                /\ \E o \in 1..Len(ops) :
                      /\ ops[o].agent = a
                      /\ ops[o].pc = "day" /\ ops'[o].pc = "hour"]_vars

\* createPlan was called twice for one agent and ran to the end both times:
\* DAY plans of iteration 1 and of iteration 2 are in its stream
C18_Witness ==
    \E a \in Agents :
        /\ Cardinality({o \in DayGenerations(a) : ops[o].pc = "done"}) = 2
        /\ DayIterations(a) = {1, 2}
        /\ latestPlanIteration[a] = 2

\* C19: the step in which retrieve returns leaves every stream as long as it
\* was and every memory's importance, embedding and createdAt as they were;
\* the memories it returns have latestAccess set to now, and every other
\* memory, of this agent or another, keeps its latestAccess
C19_RetrieveTouchesOnlyReturned ==
    [][\A o \in 1..Len(ops) :
          (ops[o].kind = "retrieve" /\ ops[o].pc = "embed" /\ ops'[o].pc = "done") =>
              \A a \in Agents :
                  /\ Len(memoryStream'[a]) = Len(memoryStream[a])
                  /\ \A i \in 1..Len(memoryStream[a]) :
                        /\ memoryStream'[a][i].importance = memoryStream[a][i].importance
                        /\ memoryStream'[a][i].embedding = memoryStream[a][i].embedding
                        /\ memoryStream'[a][i].createdAt = memoryStream[a][i].createdAt
                        /\ IF a = ops[o].agent /\ i \in Range(ops'[o].returned)
                           THEN memoryStream'[a][i].latestAccess = DateToString(now)
                           ELSE memoryStream'[a][i].latestAccess
                                    = memoryStream[a][i].latestAccess]_vars

\* retrieve returned one memory of a stream of two, later than both were
\* appended: the one returned is stamped anew, the other is not
C19_Witness ==
    \E o \in 1..Len(ops) :
        /\ ops[o].kind = "retrieve" /\ ops[o].pc = "done"
        /\ Len(ops[o].returned) = 1
        /\ LET stream == memoryStream[ops[o].agent]
           IN  /\ Len(stream) = 2
               /\ \E i, j \in 1..2 :
                     /\ i \in Range(ops[o].returned) /\ j \notin Range(ops[o].returned)
                     /\ StringToDate(stream[i].latestAccess)
                            > StringToDate(stream[i].createdAt)
                     /\ stream[j].latestAccess = stream[j].createdAt
                     /\ stream[j].latestAccess # stream[i].latestAccess

\* the Reflections in a stream
Reflections(stream) == {k \in 1..Len(stream) : stream[k].type = "REFLECTION"}

\* C20: maybeReflect starts a synthesis only with the running sum at or above
\* the threshold, so below it no memory is created; a synthesis that succeeds
\* appends exactly one Reflection and sets the sum to zero, and a Reflection is
\* appended in no other step; a synthesis that fails leaves sum and stream as
\* they were
C20_ReflectAtThreshold ==
    [][\A a \in Agents :
          /\ \A o \in 1..Len(ops') :
                (ops'[o].kind = "reflect" /\ ops'[o].agent = a) =>
                    /\ ops'[o].sum >= ReflectionThreshold
                    /\ o > Len(ops) => importanceSum'[a] = ops'[o].sum
          /\ (Len(memoryStream'[a]) > Len(memoryStream[a])
                 /\ importanceSum'[a] < ReflectionThreshold
                 /\ importanceSum'[a] > importanceSum[a])
             => ops' = ops
          /\ Reflections(memoryStream'[a]) # Reflections(memoryStream[a])
             => \E o \in 1..Len(ops) :
                   /\ ops[o].agent = a
                   /\ ops[o].pc = "generate" /\ ops'[o].pc = "done"
          /\ \A o \in 1..Len(ops) :
                (ops[o].agent = a /\ ops[o].kind = "reflect") =>
                    /\ (ops[o].pc = "generate" /\ ops'[o].pc = "done")
                       => /\ Len(memoryStream'[a]) = Len(memoryStream[a]) + 1
                          /\ Reflections(memoryStream'[a])
                                = Reflections(memoryStream[a])
                                    \cup {Len(memoryStream'[a])}
                          /\ importanceSum'[a] = 0
                    /\ (ops[o].pc # "failed" /\ ops'[o].pc = "failed")
                       => /\ importanceSum'[a] = importanceSum[a]
                          /\ memoryStream'[a] = memoryStream[a]]_vars

\* two observations of half the threshold each brought the sum to the
\* threshold exactly; the synthesis succeeded, the stream holds its Reflection
\* and the sum is zero
C20_Witness ==
    \E o \in 1..Len(ops) :
        /\ ops[o].kind = "reflect" /\ ops[o].pc = "done"
        /\ ops[o].sum = ReflectionThreshold
        /\ Len(memoryStream[ops[o].agent]) = 3
        /\ Reflections(memoryStream[ops[o].agent]) = {3}
        /\ importanceSum[ops[o].agent] = 0

\* the Observations in a stream
Observations(stream) == {k \in 1..Len(stream) : stream[k].type = "OBSERVATION"}

\* C21: whatever observe calls are in flight and in whatever order their
\* collaborators answer, memoryCount.observation is the number of Observations
\* in the stream, and no two Observations of a stream have the same id
C21_CountMatchesStream ==
    \A a \in Agents :
        /\ memoryCount[a].observation = Cardinality(Observations(memoryStream[a]))
        /\ \A j, k \in Observations(memoryStream[a]) :
              memoryStream[a][j].id = memoryStream[a][k].id => j = k

\* three observe calls on one agent overlapped: the last one made has appended
\* first, the first one made has appended after it, and the one in between is
\* still waiting for its embedding
C21_Witness ==
    \E a \in Agents : \E b, c, d \in Calls :
        /\ b < c /\ c < d
        /\ calls[b].agent = a /\ calls[c].agent = a /\ calls[d].agent = a
        /\ calls[d].pc = "done" /\ calls[d].at = 1
        /\ calls[b].pc = "done" /\ calls[b].at = 2
        /\ calls[c].pc = "embed"
        /\ memoryCount[a].observation = 2

\* task t starts a createInteraction call in this step: from a frame, or from
\* the for-loop going on after an earlier call of the pass
Initiates(t) ==
    /\ tasks'[t].pc = "reply"
    /\ \/ t > Len(tasks)
       \/ tasks[t].pc # "reply"

\* C22: a character starts a createInteraction call only when at least
\* minInteractionInterval has passed since the stamp of its last successful
\* interaction, the stamps written in the same job included
C22_NoInitiationInCooldown ==
    [][\A t \in 1..Len(tasks') :
          Initiates(t) =>
              now' - lastInteractionTime'[tasks'[t].self] >= minInteractionInterval]_vars

\* what an entry of a cross-agent list says, and what interaction r must have
\* left in the list of its initiator and of its target
Said(m) == [content |-> m.content, source |-> m.source, type |-> m.type]
SaidToInitiator(r) == [content |-> r.content, source |-> r.targetId, type |-> "direct"]
SaidToTarget(r) ==
    [content |-> r.content, source |-> r.initiatorId,
     type |-> IF r.type = "rumor" THEN "rumor" ELSE "direct"]

AsInitiator(a) == {i \in 1..Len(interactions) : interactions[i].initiatorId = a}
AsTarget(a) == {i \in 1..Len(interactions) : interactions[i].targetId = a}

\* C23: the cross-agent list of an agent holds, for every interaction of the
\* log it initiated, one entry with the content, the target as source and type
\* direct, for every interaction it was the target of, one entry with the
\* content, the initiator as source and type rumor for a rumor and direct
\* otherwise, and nothing else; so it is empty for an agent in no interaction
C23_ListMatchesLog ==
    \A a \in Everybody :
        LET list == getAgentMemories(a)
        IN  /\ Len(list) = Cardinality(AsInitiator(a)) + Cardinality(AsTarget(a))
            /\ \A k \in 1..Len(list) :
                  /\ list[k].agentId = a
                  /\ Cardinality({j \in 1..Len(list) : Said(list[j]) = Said(list[k])})
                       = Cardinality({i \in AsInitiator(a) :
                                        SaidToInitiator(interactions[i]) = Said(list[k])})
                         + Cardinality({i \in AsTarget(a) :
                                          SaidToTarget(interactions[i]) = Said(list[k])})

\* an agent initiated a conversation and was the target of a rumor: its list
\* holds a direct entry and a rumor entry, and the bystander's list is empty
C23_Witness ==
    \E a \in Agents :
        /\ \E i \in AsInitiator(a) : interactions[i].type = "conversation"
        /\ \E i \in AsTarget(a) : interactions[i].type = "rumor"
        /\ \E k \in 1..Len(getAgentMemories(a)) : getAgentMemories(a)[k].type = "rumor"
        /\ \E k \in 1..Len(getAgentMemories(a)) : getAgentMemories(a)[k].type = "direct"
        /\ Len(getAgentMemories(a)) = 2
        /\ getAgentMemories(Bystander) = <<>>

\* C24: a call of getRecentInteractions leaves the stored log as it was, the
\* same interactions in the same order, and changes no agent's memories
C24_GetRecentInteractionsReadsOnly ==
    [][probe'.query = "getRecentInteractions" /\ probe' # probe =>
          /\ interactions' = interactions
          /\ memories' = memories
          /\ memoryStream' = memoryStream]_vars

\* which captured message an entry of the activity log holds
Serial(entry) == entry.message[Len(entry.message)]

\* C25: the activity log holds the last 100 captured messages at most, the
\* newest in front: with n messages captured, entry k is message n - k + 1
C25_LogKeepsLastHundred ==
    /\ Len(logs) <= 100
    /\ Len(logs) = IF captured < 100 THEN captured ELSE 100
    /\ \A k \in 1..Len(logs) : Serial(logs[k]) = captured - k + 1

\* more than 100 messages were captured: the log is full and begins with the
\* newest, and the oldest ones are gone
C25_Witness ==
    /\ captured > 101
    /\ Len(logs) = 100
    /\ Serial(logs[1]) = captured
    /\ Serial(logs[100]) > 2

\* the replyWithContext calls that have not settled
PendingReplies == {n \in 1..Len(sends) : sends[n].pc = "reply"}

\* C26: isAgentReplying is true exactly while a replyWithContext call is
\* pending
C26_ReplyingIffPending == isAgentReplying = (PendingReplies # {})

\* the message of the n-th send is in the list with status sending
Sending(n) ==
    \E k \in 1..Len(messages) : messages[k].id = n /\ messages[k].status = "sending"

FieldsInError == {f \in DOMAIN validationErrors : validationErrors[f] # ""}

\* C28: in edit mode the Save button is enabled exactly when there are unsaved
\* changes and no field has a validation error
C28_SaveEnabledWhenValid ==
    isEditing => (~SaveDisabled <=> (hasChanges /\ FieldsInError = {}))

\* the keys of the stored object are pairwise different
OnePerId(store) ==
    \A j, k \in 1..Len(GetAllAgents(store)) :
        GetAllAgents(store)[j][1] = GetAllAgents(store)[k][1] => j = k

\* C29: after saveAgent(a), getAgent(a.id) returns a (read back, so without
\* its undefined fields), the agents stored under other ids are as before, and
\* the store holds one agent per id
C29_SaveThenGet ==
    [][probe'.query = "saveAgent" =>
          LET a == probe'.args[1]
          IN  /\ GetAgent(storage', a.id) = <<DropUndefined(a)>>
              /\ \A id \in StoredIds \ {a.id} :
                    GetAgent(storage', id) = GetAgent(storage, id)
              /\ OnePerId(storage')]_vars

\* an agent was saved again under the id stored first, while another id is
\* stored too: the store holds the two, and the new details under that id
C29_Witness ==
    /\ probe.query = "saveAgent"
    /\ Len(GetAllAgents(storage)) = 2
    /\ GetAllAgents(storage)[1][1] = probe.args[1].id
    /\ probe.args[1].emoji = Undefined
    /\ GetAgent(storage, probe.args[1].id) = <<DropUndefined(probe.args[1])>>

\* C30: initializeDefaultAgent(d) stores d when nothing is stored under d.id,
\* and leaves the store as it is otherwise; a second call changes nothing
C30_InitializeOnlyWhenAbsent ==
    [][probe'.query = "initializeDefaultAgent" =>
          LET d == probe'.args[1]
          IN  /\ GetAgent(storage, d.id) = <<>> =>
                    /\ GetAgent(storage', d.id) = <<DropUndefined(d)>>
                    /\ \A id \in StoredIds \ {d.id} :
                          GetAgent(storage', id) = GetAgent(storage, id)
              /\ GetAgent(storage, d.id) # <<>> => storage' = storage
              /\ InitializeDefaultAgent(storage', d) = storage']_vars

\* initializeDefaultAgent was called with details other than the ones stored
\* under that id, and the stored ones are still there
C30_Witness ==
    /\ probe.query = "initializeDefaultAgent"
    /\ GetAgent(storage, probe.args[1].id) # <<>>
    /\ GetAgent(storage, probe.args[1].id) # <<DropUndefined(probe.args[1])>>

====
